---- MODULE Spec2Model ----
(***************************************************************************)
(* Model of the generation side of the tax agent's RAG pipeline:           *)
(* answer_question (app/services/rag_pipeline.py), check_safety_block and   *)
(* build_generation_config (app/services/safety.py) and critique_answer    *)
(* (app/services/critic.py).                                               *)
(*                                                                         *)
(* One request is followed from its entry into answer_question to the      *)
(* RAGResponse handed to the caller.  The request is suspended at every    *)
(* await; one action models the code between two suspension points, with   *)
(* the reply of the external collaborator as its input.                    *)
(***************************************************************************)
EXTENDS Naturals, Integers, Sequences, FiniteSets, TLC

(***************************************************************************)
(* Bounds of the model.                                                    *)
(***************************************************************************)
\* number of distinct non-empty texts the generation backend may return
NumTexts == 2
\* largest number of primary (citable) search results of a request
MaxSources == 1
\* articles the store may hold
NumArticles == 4
\* longest result list handed to a retrieval function
MaxResults == 3
\* largest max_refs tried
MaxRefs == 2
\* longest list one semantic search returns
MaxSemantic == 2
\* longest list one keyword search returns
MaxKeyword == 1

(***************************************************************************)
(* Program constants.                                                      *)
(***************************************************************************)
SAFETY_FALLBACK_MESSAGE == "SAFETY_FALLBACK_MESSAGE"
DISCLAIMER_CRITIC == "DISCLAIMER_CRITIC"
\* settings.critic_confidence_threshold (0.7), in thousandths
critic_confidence_threshold == 700

\* settings.generation_model / settings.safety_fallback_model
generation_model == "generation_model"
safety_fallback_model == "safety_fallback_model"

PRIMARY_SAFETY_SETTINGS == "BLOCK_ONLY_HIGH"
FALLBACK_SAFETY_SETTINGS == "DANGEROUS_CONTENT_OFF"

(***************************************************************************)
(* Input domains.                                                          *)
(***************************************************************************)
TextPool == <<"answer A", "answer B", "answer C", "answer D">>
\* texts a generation call can return; the empty text is among them
Texts == {""} \cup {TextPool[i] : i \in 1..NumTexts}
\* native scores of primary search results, in thousandths
ScoreLevels == {300, 700, 900}

RECURSIVE SeqsUpTo(_, _)
SeqsUpTo(S, n) ==
    IF n = 0 THEN {<<>>}
    ELSE LET shorter == SeqsUpTo(S, n - 1)
         IN  shorter \cup {Append(s, x) : s \in {t \in shorter : Len(t) = n - 1}, x \in S}

RECURSIVE SumSeq(_)
SumSeq(s) == IF s = <<>> THEN 0 ELSE Head(s) + SumSeq(Tail(s))

Min(a, b) == IF a < b THEN a ELSE b
Max(a, b) == IF a > b THEN a ELSE b

(***************************************************************************)
(* The replies of the generation backend to one generate_content call.     *)
(*   kind = "raise"  the call raised (transport / API exception)           *)
(*   kind = "none"   the call returned None                                *)
(*   kind = "resp"   a response object; candidates tells whether the       *)
(*                   candidate list is non-empty, text_raises whether      *)
(*                   reading response.text raises, parts is the text of    *)
(*                   the candidate's parts or "<raise>" when reading the   *)
(*                   parts raises too                                      *)
(***************************************************************************)
NoText == "<raise>"

GenResponse(kind, candidates, finish_reason, text_raises, text, parts) ==
    [kind |-> kind, candidates |-> candidates, finish_reason |-> finish_reason,
     text_raises |-> text_raises, text |-> text, parts |-> parts]

GenResponses ==
    {GenResponse("raise", FALSE, "STOP", FALSE, "", ""),
     GenResponse("none", FALSE, "STOP", FALSE, "", ""),
     GenResponse("resp", FALSE, "STOP", FALSE, "", "")}
    \cup {GenResponse("resp", TRUE, "SAFETY", FALSE, "", "")}
    \cup {GenResponse("resp", TRUE, fr, FALSE, t, t) :
            fr \in {"STOP", "MAX_TOKENS"}, t \in Texts}
    \cup {GenResponse("resp", TRUE, fr, TRUE, "", p) :
            fr \in {"STOP", "MAX_TOKENS"}, p \in Texts \cup {NoText}}

(***************************************************************************)
(* safety.py: check_safety_block.  Returns (is_blocked, reason, text).     *)
(***************************************************************************)
SafetyCheck(is_blocked, reason, text) ==
    [is_blocked |-> is_blocked, reason |-> reason, text |-> text]

check_safety_block(response) ==
    IF response.kind = "none" THEN SafetyCheck(TRUE, "no_response", "")
    ELSE IF ~response.candidates THEN SafetyCheck(TRUE, "no_candidates", "")
    ELSE IF response.finish_reason = "SAFETY"
         THEN SafetyCheck(TRUE, "finish_reason_safety", "")
    ELSE IF response.finish_reason = "MAX_TOKENS"
         THEN SafetyCheck(TRUE, "finish_reason_max_tokens",
                          IF response.text_raises THEN "" ELSE response.text)
    ELSE SafetyCheck(FALSE, response.finish_reason,
                     IF ~response.text_raises THEN response.text
                     ELSE IF response.parts = NoText THEN ""
                     ELSE response.parts)

(***************************************************************************)
(* safety.py: build_generation_config; only the safety settings depend on  *)
(* the attempt.                                                            *)
(***************************************************************************)
build_generation_config(safety_level) ==
    IF safety_level = "fallback" THEN FALLBACK_SAFETY_SETTINGS
    ELSE PRIMARY_SAFETY_SETTINGS

(***************************************************************************)
(* rag_pipeline.py: the attempt list of answer_question.                   *)
(***************************************************************************)
Attempt(model, safety_level) == [model |-> model, safety_level |-> safety_level]

attempts_backup_first ==
    <<Attempt(generation_model, "primary"),
      Attempt(safety_fallback_model, "primary"),
      Attempt(generation_model, "fallback")>>
attempts ==
    <<Attempt(generation_model, "primary"),
      Attempt(generation_model, "fallback"),
      Attempt(safety_fallback_model, "primary")>>

(***************************************************************************)
(* critic.py.  The reply of the reviewer model is a text, modelled as a    *)
(* sequence of tokens: a fence opener, a fence closer, free prose, or a    *)
(* JSON document.                                                          *)
(***************************************************************************)
None == "<None>"
\* the tokens stand for the three-backquote fences of a markdown code block
FenceJson == "<fence json>"
FenceOpen == {FenceJson, "<fence>"}
FenceClose == "<fence>"
Prose == "Sure! The answer looks good to me."

J_approved == "{\"approved\": true, \"feedback\": null}"
J_rejected == "{\"approved\": false, \"feedback\": \"fb\"}"
J_rejected_null_feedback == "{\"approved\": false, \"feedback\": null}"
J_rejected_only == "{\"approved\": false}"
J_empty_object == "{}"
J_feedback_only == "{\"feedback\": \"fb\"}"
J_array == "[]"
J_string == "\"approved\""

JsonValue(type, has_approved, approved, has_feedback, feedback) ==
    [type |-> type, has_approved |-> has_approved, approved |-> approved,
     has_feedback |-> has_feedback, feedback |-> feedback]

\* the documents json.loads accepts, with the value it returns
JsonDocs ==
    (J_approved :> JsonValue("object", TRUE, TRUE, TRUE, None))
    @@ (J_rejected :> JsonValue("object", TRUE, FALSE, TRUE, "fb"))
    @@ (J_rejected_null_feedback :> JsonValue("object", TRUE, FALSE, TRUE, None))
    @@ (J_rejected_only :> JsonValue("object", TRUE, FALSE, FALSE, None))
    @@ (J_empty_object :> JsonValue("object", FALSE, FALSE, FALSE, None))
    @@ (J_feedback_only :> JsonValue("object", FALSE, FALSE, TRUE, "fb"))
    @@ (J_array :> JsonValue("array", FALSE, FALSE, FALSE, None))
    @@ (J_string :> JsonValue("string", FALSE, FALSE, FALSE, None))

Payloads == DOMAIN JsonDocs \cup {Prose}

\* texts the reviewer may answer with: bare, fenced, fenced inside prose,
\* with an unterminated fence, and with two fenced blocks
RawTexts ==
    {<<p>> : p \in Payloads}
    \cup {<<o, p, FenceClose>> : o \in FenceOpen, p \in Payloads}
    \cup {<<Prose, FenceJson, p, FenceClose, Prose>> : p \in Payloads}
    \cup {<<FenceJson, p>> : p \in Payloads}
    \cup {<<FenceJson, p, FenceClose, Prose, FenceJson, q, FenceClose>> :
            p \in {J_approved, J_rejected}, q \in {J_approved, J_rejected}}

ReviewerReply(kind, raw) == [kind |-> kind, raw |-> raw]
\* a reply of kind "raise" is a transport failure of the reviewer call, a
\* reply of kind "hang" a call that never returns
ReviewerReplies ==
    {ReviewerReply("raise", <<>>), ReviewerReply("hang", <<>>)}
    \cup {ReviewerReply("resp", r) : r \in RawTexts}

\* critic.py: _extract_json -- the body of the first fenced block, else the text
_extract_json(text) ==
    LET opens == {i \in 1..Len(text) :
                    /\ text[i] \in FenceOpen
                    /\ \E j \in (i + 1)..Len(text) : text[j] = FenceClose}
    IN  IF opens = {} THEN text
        ELSE LET i == CHOOSE a \in opens : \A b \in opens : a <= b
                 j == CHOOSE a \in (i + 1)..Len(text) :
                        /\ text[a] = FenceClose
                        /\ \A b \in (i + 1)..Len(text) : text[b] = FenceClose => a <= b
             IN  SubSeq(text, i + 1, j - 1)

\* json.loads: a parse error unless the text is exactly one JSON document
ParseError == JsonValue("JSONDecodeError", FALSE, FALSE, FALSE, None)
json_loads(text) ==
    IF Len(text) = 1 /\ text[1] \in DOMAIN JsonDocs THEN JsonDocs[text[1]]
    ELSE ParseError

CriticResult(approved, feedback) == [approved |-> approved, feedback |-> feedback]

\* critic.py: what both except branches of critique_answer return
FailClosed == CriticResult(FALSE, "critic_failed")
FailOpen == CriticResult(TRUE, None)

\* the reviewer is called only past the two gates of critique_answer
ReviewerIsCalledBelow(critic_enabled, confidence) ==
    critic_enabled /\ confidence < critic_confidence_threshold
ReviewerIsCalled(critic_enabled, confidence) ==
    critic_enabled /\ ~(confidence > critic_confidence_threshold)

critique_answer(critic_enabled, confidence, reply) ==
    IF ~critic_enabled THEN CriticResult(TRUE, None)
    ELSE IF confidence > critic_confidence_threshold THEN CriticResult(TRUE, None)
    ELSE IF reply.kind = "raise" THEN FailOpen
    ELSE LET verdict == json_loads(_extract_json(reply.raw))
         IN  IF verdict.type = "JSONDecodeError" THEN FailOpen
             ELSE IF verdict.type # "object" THEN FailOpen
             ELSE CriticResult(IF verdict.has_approved THEN verdict.approved ELSE TRUE,
                               IF verdict.has_feedback THEN verdict.feedback ELSE None)

\* what critique_answer got from the reviewer: nothing (gated off), a
\* transport failure, a text that is no JSON, a JSON document that is no
\* object, or a JSON object
ReplyKind(critic_enabled, confidence, reply) ==
    IF ~ReviewerIsCalled(critic_enabled, confidence) THEN "skipped"
    ELSE IF reply.kind = "raise" THEN "transport_failure"
    ELSE LET doc == _extract_json(reply.raw)
         IN  IF ~(Len(doc) = 1 /\ doc[1] \in DOMAIN JsonDocs) THEN "unparsable"
             ELSE IF JsonDocs[doc[1]].type # "object" THEN "not_an_object"
             ELSE "object"

\* Python truthiness of an Optional[str]
Truthy(s) == s # None /\ s # ""

\* critic.py awaits the reviewer call with asyncio.to_thread alone: there is
\* no asyncio.wait_for around it, so critique_answer stays suspended for as
\* long as the call does not return
AwaitsForever(critic_enabled, confidence, reply) ==
    ReviewerIsCalled(critic_enabled, confidence) /\ reply.kind = "hang"

(***************************************************************************)
(* query_rewriter.py: rewrite_query.  The rewriter call is wrapped in      *)
(* asyncio.wait_for, so a call that never returns ends in TimeoutError.    *)
(* The result is the query to search with and whether the timeout fired.   *)
(***************************************************************************)
RewriterReplies == {"text", "empty", "raise", "hang"}

Rewrite(query, timeout) == [query |-> query, timeout |-> timeout]

rewrite_query(has_history, reply) ==
    IF ~has_history THEN Rewrite("query", FALSE)
    ELSE IF reply = "text" THEN Rewrite("rewritten", FALSE)
    ELSE IF reply = "hang" THEN Rewrite("query", TRUE)
    ELSE Rewrite("query", FALSE)

(***************************************************************************)
(* follow_up_generator.py: generate_follow_ups.  The call is wrapped in    *)
(* asyncio.wait_for; timeout, exception and a short answer give [].  The   *)
(* result is the number of suggestions and whether the timeout fired.      *)
(***************************************************************************)
FollowUpReply(kind, n) == [kind |-> kind, n |-> n]
FollowUpReplies ==
    {FollowUpReply("hang", 0), FollowUpReply("raise", 0)}
    \cup {FollowUpReply("list", n) : n \in 0..1}

FollowUps(n, timeout) == [n |-> n, timeout |-> timeout]

generate_follow_ups(follow_up_enabled, answer, reply) ==
    IF ~follow_up_enabled THEN FollowUps(0, FALSE)
    ELSE IF answer = "" THEN FollowUps(0, FALSE)
    ELSE IF reply.kind = "hang" THEN FollowUps(0, TRUE)
    ELSE IF reply.kind = "raise" THEN FollowUps(0, FALSE)
    ELSE FollowUps(reply.n, FALSE)

(***************************************************************************)
(* The article store and the search results.  An article of the store is   *)
(* known by its number; is_exception, related_articles and the length of   *)
(* its body are fixed per article.  A search result is the article plus    *)
(* the fields the searches add: score (thousandths), search_type (None     *)
(* when absent, as in the semantic results) and is_cross_ref.              *)
(***************************************************************************)
Articles == 1..NumArticles

\* article_number is None
NoArticle == -1

IsException(a) == a \in {2, 3} \/ (a > 4 /\ a % 2 = 1)

RelatedArticles(a) ==
    CASE a < 1 -> <<>>
      [] a = 1 -> <<2, 3>>
      [] a = 2 -> <<1>>
      [] a = 3 -> <<1, 4>>
      [] a = 4 -> <<>>
      [] OTHER -> <<1, a - 1>>

BodyLen(a) ==
    CASE a = 1 -> 150
      [] a = 2 -> 250
      [] a = 3 -> 300
      [] a = 4 -> 0
      [] OTHER -> 100

\* rrf_score of an entry that has not been through the fusion
Unranked == -1

Result(a, score, search_type) ==
    [article_number |-> a, score |-> score, search_type |-> search_type,
     is_cross_ref |-> search_type = "cross_ref",
     is_exception |-> IsException(a), related_articles |-> RelatedArticles(a),
     body |-> BodyLen(a), rrf_score |-> Unranked]

Range(s) == {s[i] : i \in 1..Len(s)}

ArticleNumbers(results) == [i \in 1..Len(results) |-> results[i].article_number]

\* sorted(..., reverse=True) on a sequence of [key, val] pairs: descending
\* by key and stable, equal keys keep their original order
RECURSIVE InsertDesc(_, _)
InsertDesc(sorted, x) ==
    IF sorted = <<>> THEN <<x>>
    ELSE IF Head(sorted).key >= x.key
         THEN <<Head(sorted)>> \o InsertDesc(Tail(sorted), x)
    ELSE <<x>> \o sorted

RECURSIVE SortedPairs(_)
SortedPairs(pairs) ==
    IF pairs = <<>> THEN <<>>
    ELSE InsertDesc(SortedPairs(SubSeq(pairs, 1, Len(pairs) - 1)), pairs[Len(pairs)])

SortedDesc(pairs) ==
    LET sorted == SortedPairs(pairs) IN [i \in 1..Len(sorted) |-> sorted[i].val]

\* the distinct elements of a sequence in the order of their first occurrence
RECURSIVE FirstOccurrences(_)
FirstOccurrences(seq) ==
    IF seq = <<>> THEN <<>>
    ELSE LET front == FirstOccurrences(SubSeq(seq, 1, Len(seq) - 1))
             x == seq[Len(seq)]
         IN  IF x \in Range(front) THEN front ELSE Append(front, x)

(***************************************************************************)
(* vector_search.py: _rrf_score and merge_and_rank.  1/(RRF_K + rank) is   *)
(* kept exact as RRFScale/(RRF_K + rank), with RRFScale a common multiple  *)
(* of the denominators; the rounding of rrf_score to six decimals touches  *)
(* the annotation only, never the order.                                   *)
(***************************************************************************)
RRF_K == 60

RECURSIVE Product(_, _)
Product(lo, hi) == IF lo > hi THEN 1 ELSE lo * Product(lo + 1, hi)

\* no partition of a fused list is longer than MaxResults
RRFScale == Product(RRF_K + 1, RRF_K + MaxResults)

rrf_from_zero(rank) == RRFScale \div (RRF_K + rank - 1)
rrf(rank) == RRFScale \div (RRF_K + rank)

\* the state of the two dictionaries of _rrf_score: scores (with its
\* insertion order, which sorted() falls back to on ties) and registry
EmptyFusion == [order |-> <<>>, scores |-> <<>>, registry |-> <<>>]

KeepsFirstSeen(r, best) == FALSE
KeepsHigherScore(r, best) == r.score > best.score

\* one pass of the inner loop body of _rrf_score
RrfStep(acc, rank, r) ==
    LET article_num == r.article_number
    IN  IF article_num = NoArticle THEN acc
        ELSE IF article_num \notin Range(acc.order)
        THEN [order |-> Append(acc.order, article_num),
              scores |-> Append(acc.scores, rrf(rank)),
              registry |-> Append(acc.registry, r)]
        ELSE LET k == CHOOSE i \in 1..Len(acc.order) : acc.order[i] = article_num
             IN  [order |-> acc.order,
                  scores |-> [acc.scores EXCEPT ![k] = @ + rrf(rank)],
                  registry |-> IF KeepsHigherScore(r, acc.registry[k])
                               THEN [acc.registry EXCEPT ![k] = r]
                               ELSE acc.registry]

RECURSIVE RrfList(_, _, _)
RrfList(acc, rlist, rank) ==
    IF rank > Len(rlist) THEN acc
    ELSE RrfList(RrfStep(acc, rank, rlist[rank]), rlist, rank + 1)

RECURSIVE RrfLists(_, _)
RrfLists(acc, ranked_lists) ==
    IF ranked_lists = <<>> THEN acc
    ELSE RrfLists(RrfList(acc, Head(ranked_lists), 1), Tail(ranked_lists))

_rrf_score(ranked_lists) ==
    LET acc == RrfLists(EmptyFusion, ranked_lists)
        keys == SortedDesc([i \in 1..Len(acc.order) |-> [key |-> acc.scores[i], val |-> i]])
    IN  [n \in 1..Len(keys) |->
            [acc.registry[keys[n]] EXCEPT !.rrf_score = acc.scores[keys[n]]]]

\* r.get("search_type", "semantic")
BucketOf(r) == IF r.search_type = None THEN "semantic" ELSE r.search_type

merge_and_rank(results) ==
    IF results = <<>> THEN <<>>
    ELSE LET sources == FirstOccurrences([i \in 1..Len(results) |-> BucketOf(results[i])])
             bucket(source) == SelectSeq(results, LAMBDA r : BucketOf(r) = source)
             by_score(b) == [i \in 1..Len(b) |-> [key |-> b[i].score, val |-> b[i]]]
             ranked_lists == [b \in 1..Len(sources) |->
                                 SortedDesc(by_score(bucket(sources[b])))]
         IN  _rrf_score(ranked_lists)

(***************************************************************************)
(* vector_search.py: enrich_with_cross_refs.  stored is the set of article *)
(* numbers the store holds; find_by_numbers returns the stored articles    *)
(* among the requested ones, in collection order.                          *)
(***************************************************************************)
RECURSIVE Ascending(_)
Ascending(S) ==
    IF S = {} THEN <<>>
    ELSE LET m == CHOOSE x \in S : \A y \in S : x <= y
         IN  <<m>> \o Ascending(S \ {m})

find_by_numbers(numbers, stored) ==
    LET found == Ascending(Range(numbers) \cap stored)
    IN  [i \in 1..Len(found) |-> Result(found[i], 0, None)]

\* the refs collected by the two nested loops, refs being the
\* related_articles of all results in order
RECURSIVE CollectRefs(_, _, _, _)
CollectRefs(refs, seen, refs_to_fetch, max_refs) ==
    IF refs = <<>> THEN refs_to_fetch
    ELSE LET ref == Head(refs)
         IN  IF ref \notin seen /\ Len(refs_to_fetch) < max_refs
             THEN CollectRefs(Tail(refs), seen \cup {ref},
                              Append(refs_to_fetch, ref), max_refs)
             ELSE CollectRefs(Tail(refs), seen, refs_to_fetch, max_refs)

RECURSIVE Flatten(_)
Flatten(seqs) == IF seqs = <<>> THEN <<>> ELSE Head(seqs) \o Flatten(Tail(seqs))

RefsToFetchUnseenOnly(results, max_refs) ==
    CollectRefs(Flatten([i \in 1..Len(results) |-> results[i].related_articles]),
                {}, <<>>, max_refs)
RefsToFetch(results, max_refs) ==
    CollectRefs(Flatten([i \in 1..Len(results) |-> results[i].related_articles]),
                {results[i].article_number : i \in 1..Len(results)}, <<>>, max_refs)

\* the result list and the arguments of the find_by_numbers calls made
Enriched(results, store_calls) == [results |-> results, store_calls |-> store_calls]

enrich_with_cross_refs(results, max_refs, stored) ==
    LET refs_to_fetch == RefsToFetch(results, max_refs)
    IN  IF refs_to_fetch = <<>> THEN Enriched(results, <<>>)
        ELSE LET cross_refs == find_by_numbers(refs_to_fetch, stored)
                 enriched_refs ==
                     [i \in 1..Len(cross_refs) |->
                         [cross_refs[i] EXCEPT !.is_cross_ref = TRUE,
                                               !.search_type = "cross_ref",
                                               !.score = 0]]
             IN  Enriched(results \o enriched_refs, <<refs_to_fetch>>)

(***************************************************************************)
(* vector_search.py: rerank_with_exceptions.                               *)
(***************************************************************************)
AttachesToFirstRef(e, g) ==
    e.related_articles # <<>> /\ g.article_number = e.related_articles[1]
AttachesTo(e, g) == g.article_number \in Range(e.related_articles)

\* the exceptions appended right after general rule g
AttachedNowhere(exceptions, g) == <<>>
AttachedAfter(exceptions, g) == SelectSeq(exceptions, LAMBDA e : AttachesTo(e, g))

rerank_with_exceptions(results) ==
    LET generals == SelectSeq(results, LAMBDA r : ~r.is_exception)
        exceptions == SelectSeq(results, LAMBDA r : r.is_exception)
        attached == {i \in 1..Len(exceptions) :
                        \E k \in 1..Len(generals) : AttachesTo(exceptions[i], generals[k])}
        orphans == SelectSeq([i \in 1..Len(exceptions) |-> i], LAMBDA i : i \notin attached)
    IN  Flatten([k \in 1..Len(generals) |->
                    <<generals[k]>> \o AttachedAfter(exceptions, generals[k])])
        \o [n \in 1..Len(orphans) |-> exceptions[orphans[n]]]

(***************************************************************************)
(* rag_pipeline.py: pack_context.  A body is modelled by its length; the   *)
(* slice body[:n] has length min(len(body), n) for n >= 0.                 *)
(***************************************************************************)
TRUNCATION_FLOOR == 200
MARKER_LEN == 6

\* line 169: enough budget is left for a truncated body
CanTruncateAlways(remaining) == remaining > 0
CanTruncate(remaining) == remaining > TRUNCATION_FLOOR

TruncatedWhole(body, remaining) == body
Truncated(body, remaining) == Min(body, remaining - MARKER_LEN) + MARKER_LEN

RECURSIVE PackLoop(_, _, _)
PackLoop(results, remaining, packed) ==
    IF results = <<>> THEN packed
    ELSE LET r == Head(results)
             body_len == r.body
         IN  IF body_len <= remaining
             THEN PackLoop(Tail(results), remaining - body_len, Append(packed, r))
             ELSE IF CanTruncate(remaining)
             THEN Append(packed, [r EXCEPT !.body = Truncated(r.body, remaining)])
             ELSE packed

pack_context(results, budget) ==
    IF results = <<>> \/ budget <= 0 THEN <<>>
    ELSE PackLoop(results, budget, <<>>)

(***************************************************************************)
(* rag_pipeline.py: answer_question.                                       *)
(***************************************************************************)
VARIABLES
    cfg,             \* the settings object (feature flags), fixed per request
    pc,              \* the suspension point the request is at
    source_refs,     \* citation refs injected into the prompt (<<>> is None)
    confidence,      \* _calculate_confidence of the primary results
    is_red_zone,     \* classify_red_zone(query)
    attempt_num,     \* attempts of the safety loop started so far
    answer_text,
    safety_fallback,
    calls,           \* the generate_content calls made for the answer, in order
    outcomes,        \* per attempt of the safety loop: its outcome and text
    verdicts,        \* the CriticResults critique_answer returned, in order
    reviewer_calls,  \* generate_content calls made by critique_answer
    replies,         \* per critique_answer call: the kind of reply it got
    regen_text,
    response,        \* what the caller of answer_question receives
    timed_out,       \* the auxiliary calls that ended in asyncio.TimeoutError
    fn,              \* the retrieval function being applied on its own
    args,            \* its arguments
    ret,             \* what it returned
    search_settings, \* the settings the retrieval stage reads
    step,            \* where the retrieval stage of the request is
    search_query,    \* the query handed to hybrid_search
    article_num,     \* detect_article_number(query), NoArticle for None
    dispatch,        \* per dispatcher of hybrid_search: how far it is, what it brought
    search_results,
    cited,           \* source_metadata, source_refs, confidence and sources
    request_settings, \* the settings the start of a request reads
    _client,         \* embedding_service._client, the module-level singleton
    _cache,          \* logic_loader._cache, the module-level dict
    rule_files,      \* data/logic/<domain>_rules.md on disk
    requests,        \* per concurrent answer_question call: its locals
    written_by       \* per module-level object: the request that assigned it

pipeline_vars ==
    <<cfg, pc, source_refs, confidence, is_red_zone, attempt_num, answer_text,
      safety_fallback, calls, outcomes, verdicts, reviewer_calls, replies,
      regen_text, response, timed_out>>

retrieval_vars == <<fn, args, ret>>

search_vars ==
    <<search_settings, step, search_query, article_num, dispatch, search_results,
      cited>>

request_vars ==
    <<request_settings, _client, _cache, rule_files, requests, written_by>>

vars == <<pipeline_vars, retrieval_vars, search_vars, request_vars>>

\* no concurrent requests are modelled
RequestsIdle ==
    /\ request_settings = [router_enabled |-> FALSE, logic_rules_enabled |-> FALSE]
    /\ _client = None
    /\ _cache = <<>>
    /\ rule_files = <<>>
    /\ requests = <<>>
    /\ written_by = <<>>

\* no retrieval stage is being followed
SearchIdle ==
    /\ search_settings = [graph_expansion_enabled |-> FALSE, citation_enabled |-> FALSE]
    /\ step = "idle"
    /\ search_query = ""
    /\ article_num = -1
    /\ dispatch = <<>>
    /\ search_results = <<>>
    /\ cited = <<>>

Settings ==
    [safety_retry_enabled : BOOLEAN, critic_enabled : BOOLEAN,
     critic_regeneration_enabled : BOOLEAN, citation_enabled : BOOLEAN,
     follow_up_enabled : BOOLEAN]

\* models/rag_response.py: RAGResponse, with the fields the pipeline decides
RAGResponse(answer, error, fallback, follow_ups) ==
    [status |-> "returned", answer |-> answer, error |-> error,
     safety_fallback |-> fallback, follow_up_suggestions |-> follow_ups]

Pending ==
    [status |-> "pending", answer |-> "", error |-> FALSE,
     safety_fallback |-> FALSE, follow_up_suggestions |-> 0]

\* the outer "except Exception" of answer_question
OuterExcept == RAGResponse("", TRUE, FALSE, 0)

\* average of the primary scores clamped to [0, 1], in thousandths
_calculate_confidence(scores) ==
    IF scores = <<>> THEN 0
    ELSE Min(Max(SumSeq(scores) \div Len(scores), 0), 1000)

GenerationCall(stage, model, safety_settings) ==
    [stage |-> stage, model |-> model, safety_settings |-> safety_settings]

\* one entry of outcomes: how the attempt ended and, for an accepted
\* response, the text it was accepted with
AttemptOutcome(resp) ==
    IF resp.kind = "raise" THEN [outcome |-> "ERROR", text |-> ""]
    ELSE LET chk == check_safety_block(resp)
         IN  IF ~chk.is_blocked THEN [outcome |-> "SUCCESS", text |-> chk.text]
             ELSE IF chk.reason = "finish_reason_max_tokens"
                  THEN [outcome |-> "TRUNCATED", text |-> ""]
             ELSE [outcome |-> "BLOCKED", text |-> ""]

\* the for loop goes on to attempt n + 1 after attempt n
LoopContinuesPastSuccess(success, n, retry_enabled) ==
    n < Len(attempts) /\ retry_enabled
LoopContinues(success, n, retry_enabled) ==
    ~success /\ n < Len(attempts) /\ retry_enabled

\* the Step 4.5 gate on the critic
CriticStage(critic_enabled, refs) ==
    IF critic_enabled /\ refs # <<>> THEN "critic" ELSE "followup"

Unmarked(text) == text
WithDisclaimer(text) == text \o "\n\n" \o DISCLAIMER_CRITIC

Init ==
    /\ cfg \in Settings
    /\ pc = "start"
    /\ source_refs = <<>>
    /\ confidence = 0
    /\ is_red_zone = FALSE
    /\ attempt_num = 0
    /\ answer_text = ""
    /\ safety_fallback = FALSE
    /\ calls = <<>>
    /\ outcomes = <<>>
    /\ verdicts = <<>>
    /\ reviewer_calls = 0
    /\ replies = <<>>
    /\ regen_text = ""
    /\ response = Pending
    /\ timed_out = {}
    /\ fn = "" /\ args = <<>> /\ ret = <<>>
    /\ SearchIdle
    /\ RequestsIdle

\* Steps 1-3 and the start of step 4: classifiers, routing, search, packing,
\* citation refs, prompt; any exception goes to the outer handler
PreGeneration(ok, scores, red) ==
    /\ pc = "start"
    /\ IF ok
       THEN /\ is_red_zone' = red
            /\ source_refs' = IF cfg.citation_enabled /\ scores # <<>>
                              THEN [i \in 1..Len(scores) |-> i] ELSE <<>>
            /\ confidence' = _calculate_confidence(scores)
            /\ answer_text' = SAFETY_FALLBACK_MESSAGE
            /\ safety_fallback' = FALSE
            /\ pc' = "generate"
            /\ UNCHANGED response
       ELSE /\ response' = OuterExcept
            /\ pc' = "done"
            /\ UNCHANGED <<is_red_zone, source_refs, confidence, answer_text,
                           safety_fallback>>
    /\ UNCHANGED <<cfg, attempt_num, calls, outcomes, verdicts, reviewer_calls,
                   replies, regen_text, timed_out>>
    /\ UNCHANGED <<retrieval_vars, search_vars, request_vars>>

\* one iteration of the safety loop, up to the next generate_content call or
\* to the critic gate after the loop
GenerationAttempt(resp) ==
    /\ pc = "generate"
    /\ LET n == attempt_num + 1
           out == AttemptOutcome(resp)
           success == out.outcome = "SUCCESS"
       IN  /\ attempt_num' = n
           /\ calls' = Append(calls,
                  GenerationCall("attempt", attempts[n].model,
                                 build_generation_config(attempts[n].safety_level)))
           /\ outcomes' = Append(outcomes, out)
           /\ answer_text' = IF success THEN out.text ELSE answer_text
           /\ safety_fallback' = IF success THEN n > 1 ELSE safety_fallback
           /\ pc' = IF LoopContinues(success, n, cfg.safety_retry_enabled)
                    THEN "generate"
                    ELSE CriticStage(cfg.critic_enabled, source_refs)
    /\ UNCHANGED <<cfg, source_refs, confidence, is_red_zone, verdicts,
                   reviewer_calls, replies, regen_text, response,
                   timed_out>>
    /\ UNCHANGED <<retrieval_vars, search_vars, request_vars>>

\* where the request goes once the regenerated answer has been reviewed
AfterRegenCritiqueLoop(approved) == IF approved THEN "followup" ELSE "regen"
AfterRegenCritique(approved) == "followup"

\* Step 4.5: the first critique_answer call and the branch on its verdict
Critique(reply) ==
    /\ pc = "critic"
    /\ IF AwaitsForever(cfg.critic_enabled, confidence, reply)
       THEN /\ pc' = "awaiting_critic"
            /\ reviewer_calls' = reviewer_calls + 1
            /\ UNCHANGED <<verdicts, replies, answer_text>>
       ELSE
       LET critic_result == critique_answer(cfg.critic_enabled, confidence, reply)
           rejected == ~critic_result.approved /\ Truthy(critic_result.feedback)
       IN  /\ verdicts' = Append(verdicts, critic_result)
           /\ replies' = Append(replies, ReplyKind(cfg.critic_enabled, confidence, reply))
           /\ reviewer_calls' =
                  IF ReviewerIsCalled(cfg.critic_enabled, confidence)
                  THEN reviewer_calls + 1 ELSE reviewer_calls
           /\ IF rejected /\ cfg.critic_regeneration_enabled
              THEN /\ pc' = "regen"
                   /\ UNCHANGED answer_text
              ELSE /\ pc' = "followup"
                   /\ answer_text' = IF rejected THEN WithDisclaimer(answer_text)
                                     ELSE answer_text
    /\ UNCHANGED <<cfg, source_refs, confidence, is_red_zone, attempt_num,
                   safety_fallback, calls, outcomes, regen_text, response,
                   timed_out>>
    /\ UNCHANGED <<retrieval_vars, search_vars, request_vars>>

\* the single regeneration call; it is not inside a try of its own, so an
\* exception of the call or of reading regen_response.text reaches the
\* outer handler
Regenerate(resp) ==
    /\ pc = "regen"
    /\ calls' = Append(calls,
           GenerationCall("regen", generation_model, build_generation_config("primary")))
    /\ IF resp.kind = "raise" \/ (resp.kind = "resp" /\ resp.text_raises)
       THEN /\ response' = OuterExcept
            /\ pc' = "done"
            /\ UNCHANGED regen_text
       ELSE /\ regen_text' = IF resp.kind = "none" THEN "None" ELSE resp.text
            /\ pc' = "regen_critic"
            /\ UNCHANGED response
    /\ UNCHANGED <<cfg, source_refs, confidence, is_red_zone, attempt_num,
                   answer_text, safety_fallback, outcomes, verdicts, reviewer_calls,
                   replies,
                   timed_out>>
    /\ UNCHANGED <<retrieval_vars, search_vars, request_vars>>

\* the second critique_answer call, on the regenerated text
RegenCritique(reply) ==
    /\ pc = "regen_critic"
    /\ IF AwaitsForever(cfg.critic_enabled, confidence, reply)
       THEN /\ pc' = "awaiting_critic"
            /\ reviewer_calls' = reviewer_calls + 1
            /\ UNCHANGED <<verdicts, replies, answer_text>>
       ELSE
       LET regen_critic == critique_answer(cfg.critic_enabled, confidence, reply)
       IN  /\ verdicts' = Append(verdicts, regen_critic)
           /\ replies' = Append(replies, ReplyKind(cfg.critic_enabled, confidence, reply))
           /\ reviewer_calls' =
                  IF ReviewerIsCalled(cfg.critic_enabled, confidence)
                  THEN reviewer_calls + 1 ELSE reviewer_calls
           /\ answer_text' = IF regen_critic.approved THEN regen_text
                             ELSE WithDisclaimer(answer_text)
           /\ pc' = AfterRegenCritique(regen_critic.approved)
    /\ UNCHANGED <<cfg, source_refs, confidence, is_red_zone, attempt_num,
                   safety_fallback, calls, outcomes, regen_text, response,
                   timed_out>>
    /\ UNCHANGED <<retrieval_vars, search_vars, request_vars>>

\* Steps 4.6 and 5: follow-up suggestions (fail-safe, an empty list on any
\* failure, on a timeout and for an empty answer) and the assembly of the
\* response; reply is what the follow-up model does with the call
FollowUpsAndAssemble(reply) ==
    /\ pc = "followup"
    /\ LET follow_ups ==
               IF /\ cfg.follow_up_enabled
                  /\ ~is_red_zone
                  /\ answer_text # SAFETY_FALLBACK_MESSAGE
               THEN generate_follow_ups(cfg.follow_up_enabled, answer_text, reply)
               ELSE FollowUps(0, FALSE)
       IN  /\ response' = RAGResponse(answer_text, FALSE, safety_fallback, follow_ups.n)
           /\ timed_out' = IF follow_ups.timeout
                           THEN timed_out \cup {"generate_follow_ups"}
                           ELSE timed_out
    /\ pc' = "done"
    /\ UNCHANGED <<cfg, source_refs, confidence, is_red_zone, attempt_num,
                   answer_text, safety_fallback, calls, outcomes, verdicts,
                   reviewer_calls, replies, regen_text>>
    /\ UNCHANGED <<retrieval_vars, search_vars, request_vars>>

Next ==
    \/ \E ok \in BOOLEAN, scores \in SeqsUpTo(ScoreLevels, MaxSources), red \in BOOLEAN :
           PreGeneration(ok, scores, red)
    \/ \E resp \in GenResponses : GenerationAttempt(resp)
    \/ \E reply \in ReviewerReplies : Critique(reply)
    \/ \E resp \in GenResponses : Regenerate(resp)
    \/ \E reply \in ReviewerReplies : RegenCritique(reply)
    \/ \E reply \in FollowUpReplies : FollowUpsAndAssemble(reply)

Spec == Init /\ [][Next]_vars

TypeOK ==
    /\ cfg \in Settings
    /\ pc \in {"start", "generate", "critic", "regen", "regen_critic", "followup", "done",
              "awaiting_critic"}
    /\ timed_out \subseteq {"rewrite_query", "generate_follow_ups"}
    /\ attempt_num \in 0..Len(attempts)
    /\ answer_text \in STRING
    /\ safety_fallback \in BOOLEAN
    /\ reviewer_calls \in Nat
    /\ Len(replies) = Len(verdicts)
    /\ response.status \in {"pending", "returned", "raised"}

(***************************************************************************)
(* The retrieval functions on their own: one call of merge_and_rank,       *)
(* enrich_with_cross_refs, rerank_with_exceptions, pack_context or         *)
(* search_by_semantic on arguments drawn from bounded sets.                *)
(***************************************************************************)
Args(results, budget, max_refs, stored) ==
    [results |-> results, budget |-> budget, max_refs |-> max_refs, stored |-> stored]

NotReturned == [done |-> FALSE, results |-> <<>>, store_calls |-> <<>>]
Returned(results, store_calls) ==
    [done |-> TRUE, results |-> results, store_calls |-> store_calls]

\* no request is in progress
PipelineIdle ==
    /\ cfg = [safety_retry_enabled |-> FALSE, critic_enabled |-> FALSE,
              critic_regeneration_enabled |-> FALSE, citation_enabled |-> FALSE,
              follow_up_enabled |-> FALSE]
    /\ pc = "idle"
    /\ source_refs = <<>>
    /\ confidence = 0
    /\ is_red_zone = FALSE
    /\ attempt_num = 0
    /\ answer_text = ""
    /\ safety_fallback = FALSE
    /\ calls = <<>>
    /\ outcomes = <<>>
    /\ verdicts = <<>>
    /\ reviewer_calls = 0
    /\ replies = <<>>
    /\ regen_text = ""
    /\ response = Pending
    /\ timed_out = {}

\* results as the searches and the expansion produce them
SemanticResults == {Result(a, s, None) : a \in Articles, s \in {300, 900}}
KeywordResults == {Result(a, 500, "keyword") : a \in Articles}
CrossRefResults == {Result(a, 0, "cross_ref") : a \in Articles}
PrimaryResults == {Result(a, 900, None) : a \in Articles}

FusionInputs ==
    SeqsUpTo(SemanticResults \cup KeywordResults \cup CrossRefResults
             \cup {Result(NoArticle, 900, None)}, MaxResults)
RerankInputs == SeqsUpTo(PrimaryResults \cup CrossRefResults, MaxResults)
PrimaryLists == SeqsUpTo(PrimaryResults, MaxResults)
Budgets == {-1, 0, 150, 200, 201, 260, 420, 1000}

\* what a call that may raise comes back with: a value, or an exception
Outcome(status, value) == [status |-> status, value |-> value]
NotIssued == Outcome("idle", <<>>)
Failed == Outcome("failed", <<>>)

\* the scores the searches attach, in thousandths
SemanticScore(a) == IF a % 2 = 1 THEN 900 ELSE 300
KeywordScore(a) == 500

\* lists without a repeated article, as one search returns them
Distinct(results) ==
    \A i, j \in 1..Len(results) :
        results[i].article_number = results[j].article_number => i = j

\* what one _do_semantic_search call may come back with
SemanticOutcomes ==
    {Failed} \cup
    {Outcome("ok", rs) :
        rs \in {l \in SeqsUpTo({Result(a, SemanticScore(a), None) : a \in Articles},
                               MaxSemantic) : Distinct(l)}}

\* the domain argument of search_by_semantic: absent, empty, or a router domain
Domains == {None, "", "GENERAL", "VAT"}

\* one call of _do_semantic_search: the domain it was given, what came back
SearchCall(domain, outcome) == [domain |-> domain, outcome |-> outcome]

\* search_by_semantic, line 191: the filtered search came back too thin
FallsBackWhenEmpty(domain, results) ==
    Truthy(domain) /\ domain # "GENERAL" /\ Len(results) < 1
FallsBack(domain, results) ==
    Truthy(domain) /\ domain # "GENERAL" /\ Len(results) < 2

\* search_by_semantic is suspended in its first or its second search
InFlight(results, store_calls) ==
    [done |-> FALSE, results |-> results, store_calls |-> store_calls]
\* an exception left the call: it has ended and returns nothing
Raised(store_calls) == [done |-> TRUE, results |-> <<>>, store_calls |-> store_calls]

FnInit ==
    /\ PipelineIdle
    /\ SearchIdle
    /\ RequestsIdle
    /\ ret = NotReturned
    /\ \/ /\ fn = "merge_and_rank"
          /\ args \in {Args(rs, 0, 0, {}) : rs \in FusionInputs}
       \/ /\ fn = "enrich_with_cross_refs"
          /\ args \in {Args(rs, 0, m, st) :
                         rs \in PrimaryLists, m \in 0..MaxRefs, st \in SUBSET Articles}
       \/ /\ fn = "rerank_with_exceptions"
          /\ args \in {Args(rs, 0, 0, {}) : rs \in RerankInputs}
       \/ /\ fn = "pack_context"
          /\ args \in {Args(rs, b, 0, {}) : rs \in PrimaryLists, b \in Budgets}
       \/ /\ fn = "search_by_semantic"
          /\ args \in [domain : Domains]

ApplyMergeAndRank ==
    /\ fn = "merge_and_rank" /\ ~ret.done
    /\ ret' = Returned(merge_and_rank(args.results), <<>>)
    /\ UNCHANGED <<request_vars, pipeline_vars, fn, args, search_vars>>

ApplyEnrichWithCrossRefs ==
    /\ fn = "enrich_with_cross_refs" /\ ~ret.done
    /\ LET enriched == enrich_with_cross_refs(args.results, args.max_refs, args.stored)
       IN  ret' = Returned(enriched.results, enriched.store_calls)
    /\ UNCHANGED <<request_vars, pipeline_vars, fn, args, search_vars>>

ApplyRerankWithExceptions ==
    /\ fn = "rerank_with_exceptions" /\ ~ret.done
    /\ ret' = Returned(rerank_with_exceptions(args.results), <<>>)
    /\ UNCHANGED <<request_vars, pipeline_vars, fn, args, search_vars>>

ApplyPackContext ==
    /\ fn = "pack_context" /\ ~ret.done
    /\ ret' = Returned(pack_context(args.results, args.budget), <<>>)
    /\ UNCHANGED <<request_vars, pipeline_vars, fn, args, search_vars>>

\* search_by_semantic, line 186: the search with the domain as given
FilteredSearch(outcome) ==
    /\ fn = "search_by_semantic" /\ ~ret.done /\ ret.store_calls = <<>>
    /\ LET made == <<SearchCall(args.domain, outcome)>>
       IN  ret' = IF outcome.status = "failed" THEN Raised(made)
                  ELSE IF FallsBack(args.domain, outcome.value)
                       THEN InFlight(outcome.value, made)
                       ELSE Returned(outcome.value, made)
    /\ UNCHANGED <<request_vars, pipeline_vars, fn, args, search_vars>>

\* search_by_semantic, lines 198-201: the retry with domain=None
UnfilteredSearch(outcome) ==
    /\ fn = "search_by_semantic" /\ ~ret.done /\ Len(ret.store_calls) = 1
    /\ LET made == Append(ret.store_calls, SearchCall(None, outcome))
       IN  ret' = IF outcome.status = "failed" THEN Raised(made)
                  ELSE Returned(outcome.value, made)
    /\ UNCHANGED <<request_vars, pipeline_vars, fn, args, search_vars>>

FnNext ==
    \/ ApplyMergeAndRank
    \/ ApplyEnrichWithCrossRefs
    \/ ApplyRerankWithExceptions
    \/ ApplyPackContext
    \/ \E outcome \in SemanticOutcomes : FilteredSearch(outcome)
    \/ \E outcome \in SemanticOutcomes : UnfilteredSearch(outcome)

FnSpec == FnInit /\ [][FnNext]_vars

(***************************************************************************)
(* rag_pipeline.py: answer_question, Steps 1.5 to 2.5 -- the retrieval     *)
(* stage of one request -- with vector_search.py: hybrid_search.  It runs  *)
(* from the query to the citation data handed to the prompt:               *)
(*   rewrite -> search -> gather -> expand -> rerank -> pack -> cite ->    *)
(*   prompt, or to the call whose exception reaches the outer handler.     *)
(***************************************************************************)
Dispatchers == {"direct", "semantic", "keyword"}

\* what store.find_by_number(number) may come back with: nothing, or the
\* article, which hybrid_search marks as direct with score 1.0
DirectOutcomes(number) ==
    {Failed, Outcome("ok", <<>>), Outcome("ok", <<Result(number, 1000, "direct")>>)}

\* search_by_keyword, or _noop (an empty list) when keyword search is off
KeywordOutcomes ==
    {Failed} \cup
    {Outcome("ok", rs) :
        rs \in {l \in SeqsUpTo({Result(a, KeywordScore(a), "keyword") : a \in Articles},
                               MaxKeyword) : Distinct(l)}}

Outcomes(d, number) ==
    CASE d = "direct" -> DirectOutcomes(number)
      [] d = "semantic" -> SemanticOutcomes
      [] d = "keyword" -> KeywordOutcomes

\* asyncio.gather(..., return_exceptions=True) hands a raised exception
\* back as a value, and the isinstance checks turn it into None / []
NotCaught(outcome) == outcome
Caught(outcome) ==
    IF outcome.status = "failed" THEN Outcome("ok", <<>>) ELSE outcome

\* the results list hybrid_search builds: direct first, then semantic, keyword
Gathered(direct, semantic, keyword) == direct.value \o semantic.value \o keyword.value

SearchSettings == [graph_expansion_enabled : BOOLEAN, citation_enabled : BOOLEAN]

max_graph_refs == MaxRefs
ContextBudgets == {420, 1000}

NotCited == [source_metadata |-> <<>>, source_refs |-> <<>>, confidence |-> 0,
             sources |-> <<>>]

WithCrossRefs(results) == results
WithoutCrossRefs(results) == SelectSeq(results, LAMBDA r : ~r.is_cross_ref)

SearchInit ==
    /\ PipelineIdle
    /\ RequestsIdle
    /\ fn = "" /\ args = <<>> /\ ret = <<>>
    /\ search_settings \in SearchSettings
    /\ step = "rewrite"
    /\ search_query = ""
    /\ article_num = NoArticle
    /\ dispatch = [d \in Dispatchers |-> NotIssued]
    /\ search_results = <<>>
    /\ cited = NotCited

\* Step 1.5
RewriteQuery(has_history, reply) ==
    /\ step = "rewrite"
    /\ search_query' = rewrite_query(has_history, reply).query
    /\ step' = "search"
    /\ UNCHANGED <<request_vars, pipeline_vars, retrieval_vars, search_settings, article_num,
                   dispatch, search_results, cited>>

\* hybrid_search up to asyncio.gather: a blank query returns [] at once,
\* otherwise all coroutines are created and handed to gather together; the
\* direct lookup is one of them only when the query names an article
Dispatch(blank, detected) ==
    /\ step = "search"
    /\ IF blank
       THEN /\ step' = "expand"
            /\ UNCHANGED <<article_num, dispatch>>
       ELSE /\ step' = "gather"
            /\ article_num' = detected
            /\ dispatch' = [d \in Dispatchers |->
                               IF d = "direct" /\ detected = NoArticle
                               THEN Outcome("absent", <<>>)
                               ELSE Outcome("pending", <<>>)]
    /\ UNCHANGED <<request_vars, pipeline_vars, retrieval_vars, search_settings, search_query,
                   search_results, cited>>

\* one dispatcher finishes, by returning or by raising
Complete(d, outcome) ==
    /\ step = "gather"
    /\ dispatch[d].status = "pending"
    /\ dispatch' = [dispatch EXCEPT ![d] = outcome]
    /\ UNCHANGED <<request_vars, pipeline_vars, retrieval_vars, search_settings, step,
                   search_query, article_num, search_results, cited>>

\* gather returns once every dispatcher has finished; hybrid_search returns
\* merge_and_rank of what the dispatchers brought
Fuse ==
    /\ step = "gather"
    /\ \A d \in Dispatchers : dispatch[d].status # "pending"
    /\ LET direct == Caught(dispatch["direct"])
           semantic == Caught(dispatch["semantic"])
           keyword == Caught(dispatch["keyword"])
       IN  IF "failed" \in {direct.status, semantic.status, keyword.status}
           THEN /\ step' = "hybrid_search_raised"
                /\ UNCHANGED search_results
           ELSE /\ step' = "expand"
                /\ search_results' = merge_and_rank(Gathered(direct, semantic, keyword))
    /\ UNCHANGED <<request_vars, pipeline_vars, retrieval_vars, search_settings, search_query,
                   article_num, dispatch, cited>>

\* Step 2.1, first half: enrich_with_cross_refs, when graph expansion is on;
\* an exception of the store reaches the outer handler of answer_question
Expand(stored, store_ok) ==
    /\ step = "expand"
    /\ IF ~search_settings.graph_expansion_enabled
       THEN /\ step' = "pack"
            /\ UNCHANGED search_results
       ELSE LET enriched == enrich_with_cross_refs(search_results, max_graph_refs, stored)
            IN  IF enriched.store_calls # <<>> /\ ~store_ok
                THEN /\ step' = "find_by_numbers_raised"
                     /\ UNCHANGED search_results
                ELSE /\ step' = "rerank"
                     /\ search_results' = enriched.results
    /\ UNCHANGED <<request_vars, pipeline_vars, retrieval_vars, search_settings, search_query,
                   article_num, dispatch, cited>>

\* Step 2.1, second half: rerank_with_exceptions, inside the same branch
Rerank ==
    /\ step = "rerank"
    /\ search_results' = rerank_with_exceptions(search_results)
    /\ step' = "pack"
    /\ UNCHANGED <<request_vars, pipeline_vars, retrieval_vars, search_settings, search_query,
                   article_num, dispatch, cited>>

\* Step 2.2
Pack(max_context_chars) ==
    /\ step = "pack"
    /\ search_results' = pack_context(search_results, max_context_chars)
    /\ step' = "cite"
    /\ UNCHANGED <<request_vars, pipeline_vars, retrieval_vars, search_settings, search_query,
                   article_num, dispatch, cited>>

\* Step 2.5 with the two later uses of search_results: the confidence
\* (Step 4.5) and the sources list of the response (Step 5)
Cite ==
    /\ step = "cite"
    /\ LET source_metadata == ArticleNumbers(WithoutCrossRefs(search_results))
           primary == WithoutCrossRefs(search_results)
       IN  cited' =
               [source_metadata |-> source_metadata,
                source_refs |->
                    IF search_settings.citation_enabled /\ source_metadata # <<>>
                    THEN [i \in 1..Len(source_metadata) |->
                             [id |-> i, article_number |-> source_metadata[i]]]
                    ELSE <<>>,
                confidence |->
                    _calculate_confidence([i \in 1..Len(primary) |-> primary[i].score]),
                sources |-> ArticleNumbers(WithCrossRefs(search_results))]
    /\ step' = "prompt"
    /\ UNCHANGED <<request_vars, pipeline_vars, retrieval_vars, search_settings, search_query,
                   article_num, dispatch, search_results>>

SearchNext ==
    \/ \E has_history \in BOOLEAN, reply \in RewriterReplies :
           RewriteQuery(has_history, reply)
    \/ \E blank \in BOOLEAN, detected \in {NoArticle, 2} : Dispatch(blank, detected)
    \/ \E d \in Dispatchers : \E outcome \in Outcomes(d, article_num) :
           Complete(d, outcome)
    \/ Fuse
    \/ \E stored \in {Articles, Articles \ {1}}, store_ok \in BOOLEAN :
           Expand(stored, store_ok)
    \/ Rerank
    \/ \E max_context_chars \in ContextBudgets : Pack(max_context_chars)
    \/ Cite

SearchSpec == SearchInit /\ [][SearchNext]_vars

(***************************************************************************)
(* Concurrent requests.  Two answer_question calls run on one event loop   *)
(* and interleave at their awaits.  Their locals are per call; the         *)
(* module-level objects they reach are embedding_service._client and       *)
(* logic_loader._cache.                                                    *)
(***************************************************************************)
NumRequests == 2
Requests == 1..NumRequests

RouterDomains == {"GENERAL", "VAT"}
RuleTexts == {"rules v1", "rules v2"}
GenaiClient == "genai.Client"
NoRequest == 0

RequestSettings == [router_enabled : BOOLEAN, logic_rules_enabled : BOOLEAN]

\* the locals of one call, before its first await
NewRequest ==
    [pc |-> "resolve_terms", domain |-> "GENERAL", logic_rules |-> None,
     alone_rules |-> None, client |-> None, foreign_reads |-> {}]

\* logic_loader.get_logic_rules: the rules returned and the cache left
\* behind.  readable is FALSE when read_text raises; a missing file and a
\* failed read are not cached.
get_logic_rules(domain, cache, files, enabled, readable) ==
    IF ~enabled THEN [result |-> None, cache |-> cache]
    ELSE LET loaded == IF cache[domain] = None /\ files[domain] # None /\ readable
                       THEN [cache EXCEPT ![domain] = files[domain]]
                       ELSE cache
         IN  [result |-> loaded[domain], cache |-> loaded]

EmptyCache == [d \in RouterDomains |-> None]

\* rag_pipeline.py line 228 as request r runs it
LogicRulesStep(r, domain, readable) ==
    LET enabled == request_settings.logic_rules_enabled
        got == get_logic_rules(domain, _cache, rule_files, enabled, readable)
        alone == get_logic_rules(domain, EmptyCache, rule_files, enabled, readable)
        hit == enabled /\ _cache[domain] # None
        foreign == IF hit /\ written_by[domain] # r THEN {"_cache"} ELSE {}
    IN  /\ _cache' = got.cache
        /\ written_by' = IF got.cache # _cache
                          THEN [written_by EXCEPT ![domain] = r]
                          ELSE written_by
        /\ requests' = [requests EXCEPT ![r] =
                           [@ EXCEPT !.pc = "hybrid_search",
                                     !.domain = domain,
                                     !.logic_rules = got.result,
                                     !.alone_rules = alone.result,
                                     !.foreign_reads = @ \cup foreign]]

RequestInit ==
    /\ PipelineIdle
    /\ fn = "" /\ args = <<>> /\ ret = <<>>
    /\ SearchIdle
    /\ request_settings \in RequestSettings
    /\ _client = None
    /\ _cache = EmptyCache
    /\ rule_files \in [RouterDomains -> {None, "rules v1"}]
    /\ requests = [r \in Requests |-> NewRequest]
    /\ written_by = [o \in RouterDomains \cup {"_client"} |-> NoRequest]

\* line 212: resolve_terms returns; without the router the call goes on to
\* get_logic_rules("GENERAL") and to its next await
ResolveTerms(r, readable) ==
    /\ requests[r].pc = "resolve_terms"
    /\ IF request_settings.router_enabled
       THEN /\ requests' = [requests EXCEPT ![r].pc = "route_query"]
            /\ UNCHANGED <<_cache, written_by>>
       ELSE LogicRulesStep(r, "GENERAL", readable)
    /\ UNCHANGED <<pipeline_vars, retrieval_vars, search_vars, request_settings,
                   _client, rule_files>>

\* lines 218-228: route_query returns the domain, then get_logic_rules(domain)
RouteQuery(r, domain, readable) ==
    /\ requests[r].pc = "route_query"
    /\ LogicRulesStep(r, domain, readable)
    /\ UNCHANGED <<pipeline_vars, retrieval_vars, search_vars, request_settings,
                   _client, rule_files>>

\* lines 231-297: the retrieval stage ends, the prompt is built and
\* get_genai_client() hands out the singleton, creating it when it is None
GetGenaiClient(r) ==
    /\ requests[r].pc = "hybrid_search"
    /\ _client' = GenaiClient
    /\ written_by' = IF _client = None
                      THEN [written_by EXCEPT !["_client"] = r]
                      ELSE written_by
    /\ requests' = [requests EXCEPT ![r] =
                       [@ EXCEPT !.pc = "generate_content",
                                 !.client = GenaiClient,
                                 !.foreign_reads =
                                     IF _client # None /\ written_by["_client"] # r
                                     THEN @ \cup {"_client"} ELSE @]]
    /\ UNCHANGED <<pipeline_vars, retrieval_vars, search_vars, request_settings,
                   _cache, rule_files>>

\* the generation and the rest of the call, on its locals alone
Respond(r) ==
    /\ requests[r].pc = "generate_content"
    /\ requests' = [requests EXCEPT ![r].pc = "done"]
    /\ UNCHANGED <<pipeline_vars, retrieval_vars, search_vars, request_settings,
                   _client, _cache, rule_files, written_by>>

\* a rules file is written, replaced or removed while the service runs
EditRuleFile(domain, text) ==
    /\ rule_files[domain] # text
    /\ rule_files' = [rule_files EXCEPT ![domain] = text]
    /\ UNCHANGED <<pipeline_vars, retrieval_vars, search_vars, request_settings,
                   _client, _cache, requests, written_by>>

RequestNext ==
    \/ \E r \in Requests, readable \in BOOLEAN : ResolveTerms(r, readable)
    \/ \E r \in Requests, domain \in RouterDomains, readable \in BOOLEAN :
           RouteQuery(r, domain, readable)
    \/ \E r \in Requests : GetGenaiClient(r)
    \/ \E r \in Requests : Respond(r)
    \/ \E domain \in RouterDomains, text \in RuleTexts \cup {None} :
           EditRuleFile(domain, text)

RequestSpec == RequestInit /\ [][RequestNext]_vars

(***************************************************************************)
(* Properties.                                                             *)
(***************************************************************************)
\* the generate_content calls of the safety loop, in order
AttemptCalls == SelectSeq(calls, LAMBDA c : c.stage = "attempt")
RegenCalls == SelectSeq(calls, LAMBDA c : c.stage = "regen")

\* attempts the configuration allows: three, or one in single-attempt mode
ConfiguredAttempts == IF cfg.safety_retry_enabled THEN 3 ELSE 1

SomeSuccess == \E i \in 1..Len(outcomes) : outcomes[i].outcome = "SUCCESS"

\* the safety loop has just been left: the critic has not run yet
LoopJustEnded == pc \in {"critic", "followup"} /\ verdicts = <<>>

\* the request went through the safety loop and the loop is over
LoopOver == attempt_num >= 1 /\ pc # "generate"

\* C1: the safety loop makes no generation call after the first SUCCESS, and
\* the answer text held when the loop ends is the fallback message iff every
\* configured attempt was non-SUCCESS, else the text of the first SUCCESS.
C1_StopsAtFirstSuccess ==
    /\ Len(AttemptCalls) = Len(outcomes)
    /\ \A i \in 1..Len(outcomes) :
           outcomes[i].outcome = "SUCCESS" => i = Len(outcomes)
    /\ LoopJustEnded =>
           /\ (answer_text = "SAFETY_FALLBACK_MESSAGE") <=>
                  (/\ Len(outcomes) = ConfiguredAttempts
                   /\ \A i \in 1..Len(outcomes) : outcomes[i].outcome # "SUCCESS")
           /\ SomeSuccess => answer_text = outcomes[Len(outcomes)].text

\* the loop ended on a SUCCESS of the third attempt after BLOCKED and ERROR
C1_Witness ==
    /\ LoopJustEnded
    /\ Len(outcomes) = 3
    /\ outcomes[1].outcome = "BLOCKED"
    /\ outcomes[2].outcome = "ERROR"
    /\ outcomes[3].outcome = "SUCCESS"
    /\ answer_text = "answer A"

\* the (model, safety settings) pairs in the order the spec fixes
PairOrder ==
    <<[model |-> "generation_model", safety_settings |-> "BLOCK_ONLY_HIGH"],
      [model |-> "generation_model", safety_settings |-> "DANGEROUS_CONTENT_OFF"],
      [model |-> "safety_fallback_model", safety_settings |-> "BLOCK_ONLY_HIGH"]>>

\* C2: the k-th generation call of the safety loop uses the k-th pair of
\* (primary, strict), (primary, relaxed), (backup, strict); relaxed safety is
\* used only after the strict attempt on the primary model failed, and never
\* with the backup model.
C2_FixedAttemptOrder ==
    /\ Len(AttemptCalls) <= 3
    /\ \A k \in 1..Len(AttemptCalls) :
           /\ AttemptCalls[k].model = PairOrder[k].model
           /\ AttemptCalls[k].safety_settings = PairOrder[k].safety_settings
    /\ \A k \in 1..Len(calls) :
           calls[k].safety_settings = "DANGEROUS_CONTENT_OFF" =>
               /\ calls[k].model = "generation_model"
               /\ k = 2
               /\ calls[1].model = "generation_model"
               /\ calls[1].safety_settings = "BLOCK_ONLY_HIGH"
               /\ outcomes[1].outcome # "SUCCESS"

\* all three attempts were made, the third one on the backup model
C2_Witness ==
    /\ Len(AttemptCalls) = 3
    /\ AttemptCalls[3].model = "safety_fallback_model"
    /\ outcomes[1].outcome = "TRUNCATED"
    /\ outcomes[2].outcome = "BLOCKED"

\* C3: when the loop ends in SUCCESS at attempt n the response has
\* safety_fallback = (n > 1) and the loop made exactly n generation calls;
\* when every attempt fails, safety_fallback is false.
C3_SafetyFallbackFlag ==
    (pc = "done" /\ attempt_num >= 1) =>
        LET n == Len(outcomes)
        IN  IF outcomes[n].outcome = "SUCCESS"
            THEN /\ response.safety_fallback = (n > 1)
                 /\ Len(AttemptCalls) = n
            ELSE response.safety_fallback = FALSE

\* C4: an attempt is accepted as SUCCESS only with a non-empty text, so a
\* response returned without an error never carries an empty answer.
C4_SuccessHasText ==
    /\ \A i \in 1..Len(outcomes) :
           outcomes[i].outcome = "SUCCESS" => outcomes[i].text # ""
    /\ (pc = "done" /\ ~response.error) => response.answer # ""

\* C5: with safety retries disabled exactly one generation attempt is made,
\* and if it is BLOCKED, TRUNCATED or ERROR the answer is the fallback message.
C5_SingleAttemptMode ==
    ~cfg.safety_retry_enabled =>
        /\ Len(AttemptCalls) <= 1
        /\ LoopOver => Len(AttemptCalls) = 1
        /\ (pc = "done" /\ attempt_num >= 1 /\ ~SomeSuccess) =>
               response.answer = "SAFETY_FALLBACK_MESSAGE"

\* C6: answer_question never raises, the caller always gets a well-formed
\* response, and exhausting the generation attempts yields the fallback
\* message in the answer field.
C6_NeverRaises ==
    /\ response.status # "raised"
    /\ pc = "done" =>
           /\ response.status = "returned"
           /\ response.error => response.answer = ""
           /\ (attempt_num >= 1 /\ ~SomeSuccess) =>
                  (response.answer = "SAFETY_FALLBACK_MESSAGE" /\ ~response.error)

\* C7: when the generation attempts are exhausted without SUCCESS no reviewer
\* call and no regeneration call is made, and the final answer is exactly the
\* fallback message.
C7_CriticOnlyAfterSuccess ==
    (LoopOver /\ ~SomeSuccess) =>
        /\ reviewer_calls = 0
        /\ RegenCalls = <<>>
        /\ pc = "done" => response.answer = "SAFETY_FALLBACK_MESSAGE"

\* the first verdict is a rejection with feedback
FirstRejected ==
    /\ verdicts # <<>>
    /\ ~verdicts[1].approved
    /\ verdicts[1].feedback \notin {"<None>", ""}

\* C8: for a successfully generated answer A: first verdict approves -> the
\* final answer is A; rejected with feedback, regeneration enabled and second
\* verdict approves -> the regenerated text without disclaimer; second verdict
\* rejects, or regeneration disabled -> A with the disclaimer appended; the
\* response is never blocked.
C8_CriticGatedOutcome ==
    (pc = "done" /\ SomeSuccess /\ verdicts # <<>>) =>
        LET A == outcomes[Len(outcomes)].text
        IN  /\ verdicts[1].approved =>
                   (response.answer = A /\ ~response.error)
            /\ ( /\ FirstRejected
                 /\ cfg.critic_regeneration_enabled
                 /\ Len(verdicts) = 2
                 /\ verdicts[2].approved ) =>
                   (response.answer = regen_text /\ ~response.error)
            /\ ( /\ FirstRejected
                 /\ \/ Len(verdicts) = 2 /\ ~verdicts[2].approved
                    \/ ~cfg.critic_regeneration_enabled ) =>
                   /\ response.answer = A \o "\n\n" \o "DISCLAIMER_CRITIC"
                   /\ ~response.error

\* rejected, regenerated, approved: the regenerated text is the answer
C8_Witness ==
    /\ pc = "done"
    /\ outcomes = <<[outcome |-> "SUCCESS", text |-> "answer A"]>>
    /\ FirstRejected
    /\ Len(verdicts) = 2
    /\ verdicts[2].approved
    /\ regen_text = "answer B"
    /\ response.answer = "answer B"

\* C9: a request makes at most one regeneration call and at most two reviewer
\* calls; a regeneration call is made only when the first verdict is a
\* rejection with feedback and regeneration is enabled; rejected then approved
\* gives exactly 2 generation calls and 2 reviewer calls.
C9_SingleRegenerationRound ==
    /\ Len(RegenCalls) <= 1
    /\ reviewer_calls <= 2
    /\ RegenCalls # <<>> => (FirstRejected /\ cfg.critic_regeneration_enabled)
    /\ ( /\ pc = "done"
         /\ Len(outcomes) = 1
         /\ SomeSuccess
         /\ FirstRejected
         /\ Len(verdicts) = 2
         /\ verdicts[2].approved ) =>
           (Len(calls) = 2 /\ reviewer_calls = 2)

\* both verdicts were rejections: one regeneration call, two reviewer calls
C9_Witness ==
    /\ pc = "done"
    /\ Len(RegenCalls) = 1
    /\ reviewer_calls = 2
    /\ Len(verdicts) = 2
    /\ ~verdicts[2].approved

\* replies that cannot be read as a verdict object
MalformedReplies == {"transport_failure", "unparsable", "not_an_object"}

\* the answer the safety loop ended with
LoopAnswer ==
    IF SomeSuccess THEN outcomes[Len(outcomes)].text ELSE "SAFETY_FALLBACK_MESSAGE"

\* C10: on every malformed or unparsable reviewer reply and every reviewer
\* transport failure critique_answer returns approved=true without feedback,
\* and the pipeline returns the answer unchanged, without regeneration.
C10_CriticFailOpen ==
    /\ \A i \in 1..Len(verdicts) :
           replies[i] \in MalformedReplies =>
               verdicts[i] = [approved |-> TRUE, feedback |-> "<None>"]
    /\ (pc = "done" /\ replies # <<>> /\ replies[1] \in MalformedReplies) =>
           /\ response.answer = LoopAnswer
           /\ ~response.error
           /\ RegenCalls = <<>>

\* a reviewer reply that is no JSON was received and the answer went out as is
C10_Witness ==
    /\ pc = "done"
    /\ replies = <<"unparsable">>
    /\ reviewer_calls = 1
    /\ response.answer = "answer A"

\* the regeneration call came back without a usable text
RegenWithoutText == RegenCalls # <<>> /\ regen_text \in {"", "None"}

\* C11: the critic path never turns a successful generation into a failed
\* response: when the single regeneration call fails (exception, safety
\* block, missing text) the request returns without error the originally
\* generated answer with the disclaimer appended.
C11_RegenFailureKeepsAnswer ==
    (pc = "done" /\ SomeSuccess) =>
        /\ ~response.error
        /\ RegenWithoutText =>
               response.answer = LoopAnswer \o "\n\n" \o "DISCLAIMER_CRITIC"

\* C12: every auxiliary LLM call is bounded by a per-call timeout: no request
\* stays suspended on a reviewer call that never returns, a rewriter call
\* that never returns leaves the original query, and a follow-up call that
\* never returns leaves the answer as it was with an empty suggestion list.
C12_AuxiliaryCallsBounded ==
    /\ pc # "awaiting_critic"
    /\ \A has_history \in BOOLEAN :
           rewrite_query(has_history, "hang") = Rewrite("query", has_history)
    /\ "generate_follow_ups" \in timed_out =>
           /\ pc = "done"
           /\ ~response.error
           /\ response.answer = answer_text
           /\ response.follow_up_suggestions = 0

\* a function applied on its own has returned
Applied(name) == fn = name /\ ret.done

C14_PrimaryBeforeCrossRefFused ==
    Applied("merge_and_rank") =>
        \A i, j \in 1..Len(ret.results) :
            ( /\ ret.results[i].search_type # "cross_ref"
              /\ ret.results[j].search_type = "cross_ref" ) => i < j

\* C16: the output of enrich_with_cross_refs has the primary list as exact
\* prefix, followed only by fetched entries tagged is_cross_ref, search_type
\* cross_ref and score 0; the requested article numbers are pairwise
\* distinct, none is in the primary set, there are at most max_refs of them,
\* and the store is not called when there is nothing to fetch.
C16_EnrichmentAdditive ==
    Applied("enrich_with_cross_refs") =>
        LET in == args.results
            out == ret.results
            requested == Flatten(ret.store_calls)
        IN  /\ Len(out) >= Len(in)
            /\ SubSeq(out, 1, Len(in)) = in
            /\ \A k \in (Len(in) + 1)..Len(out) :
                   /\ out[k].is_cross_ref
                   /\ out[k].search_type = "cross_ref"
                   /\ out[k].score = 0
                   /\ out[k].article_number \in Range(requested) \cap args.stored
            /\ Len(ret.store_calls) <= 1
            /\ \A c \in 1..Len(ret.store_calls) : ret.store_calls[c] # <<>>
            /\ \A i, j \in 1..Len(requested) : requested[i] = requested[j] => i = j
            /\ Range(requested) \cap Range(ArticleNumbers(in)) = {}
            /\ Len(requested) <= args.max_refs

\* articles 3 and 2 were found: 1 and 4 were requested, 1 alone is stored
C16_Witness ==
    /\ Applied("enrich_with_cross_refs")
    /\ ArticleNumbers(args.results) = <<3, 2>>
    /\ ret.store_calls = << <<1, 4>> >>
    /\ ArticleNumbers(ret.results) = <<3, 2, 1>>
    /\ ret.results[3].is_cross_ref

\* C18: in the output of rerank_with_exceptions every general rule is
\* directly followed by the exceptions whose related_articles name it (all
\* of them, in their input order, when several name the same rule), and
\* every orphan exception comes after all generals and attached exceptions.
C18_ExceptionsFollowGeneral ==
    Applied("rerank_with_exceptions") =>
        LET in == args.results
            out == ret.results
            General(r) == ~r.is_exception
            Orphan(r) ==
                /\ r.is_exception
                /\ \A i \in 1..Len(in) : General(in[i]) => ~AttachesTo(r, in[i])
        IN  /\ \A p \in 1..Len(out) :
                   General(out[p]) =>
                       LET named == SelectSeq(in,
                               LAMBDA e : e.is_exception /\ AttachesTo(e, out[p]))
                       IN  /\ p + Len(named) <= Len(out)
                           /\ SubSeq(out, p + 1, p + Len(named)) = named
            /\ \A i \in 1..Len(in) :
                   (in[i].is_exception /\ ~Orphan(in[i])) =>
                       \E p \in 1..(Len(out) - 1) :
                           /\ General(out[p])
                           /\ AttachesTo(in[i], out[p])
                           /\ \E q \in (p + 1)..Len(out) :
                                  /\ out[q] = in[i]
                                  /\ \A m \in (p + 1)..q : out[m].is_exception
            /\ \A p, q \in 1..Len(out) :
                   (Orphan(out[p]) /\ ~Orphan(out[q])) => q < p
            /\ SelectSeq(out, Orphan) = SelectSeq(in, Orphan)

\* exceptions 3 and 2 both name general rule 1 and follow it in input order
C18_Witness ==
    /\ Applied("rerank_with_exceptions")
    /\ ArticleNumbers(args.results) = <<3, 2, 1>>
    /\ ArticleNumbers(ret.results) = <<1, 3, 2>>

BodyLengths(results) == [i \in 1..Len(results) |-> results[i].body]

\* C19 as stated: for every budget B, B <= 0 included, the body lengths
\* returned by pack_context sum to at most B.
C19_PackWithinBudget_AnyBudget ==
    Applied("pack_context") => SumSeq(BodyLengths(ret.results)) <= args.budget

\* C19: for every budget B >= 0 the body lengths returned by pack_context,
\* the truncated body counted with its marker, sum to at most B; for B <= 0
\* nothing is returned.
C19_PackWithinBudget ==
    Applied("pack_context") =>
        /\ args.budget >= 0 => SumSeq(BodyLengths(ret.results)) <= args.budget
        /\ args.budget <= 0 => ret.results = <<>>

\* the second article did not fit and was cut to the 270 characters left
C19_Witness ==
    /\ Applied("pack_context")
    /\ args.budget = 420
    /\ ArticleNumbers(args.results) = <<1, 3>>
    /\ BodyLengths(ret.results) = <<150, 270>>

CrossRefsLast(results) ==
    \A i, j \in 1..Len(results) :
        (~results[i].is_cross_ref /\ results[j].is_cross_ref) => i < j

\* C15: in the order handed to the context packer, after fusion, graph
\* expansion and precedence reranking, every primary entry precedes every
\* cross-ref entry, for any mix of general rules and exceptions.
C15_PrimaryBeforeCrossRefPacked ==
    step = "pack" => CrossRefsLast(search_results)

\* the article numbers of the cross-ref entries of the final results
CrossRefNumbers ==
    {search_results[i].article_number :
        i \in {k \in 1..Len(search_results) : search_results[k].is_cross_ref}}

\* C17: no cross-ref entry contributes to the confidence score or appears in
\* a citation list (source_metadata, the sources list, the citation refs of
\* the prompt), and the citation refs carry the ids 1, 2, ... in order.
C17_CrossRefsContextOnly ==
    step = "prompt" =>
        LET primary == SelectSeq(search_results, LAMBDA r : ~r.is_cross_ref)
        IN  /\ cited.confidence =
                   _calculate_confidence([i \in 1..Len(primary) |-> primary[i].score])
            /\ Range(cited.source_metadata) \cap CrossRefNumbers = {}
            /\ Range(cited.sources) \cap CrossRefNumbers = {}
            /\ \A i \in 1..Len(cited.source_refs) :
                   /\ cited.source_refs[i].id = i
                   /\ cited.source_refs[i].article_number \notin CrossRefNumbers

\* what dispatcher d brought, nothing when it raised or was not issued
Succeeded(d) == IF dispatch[d].status = "ok" THEN dispatch[d].value ELSE <<>>

\* C20: the dispatchers of hybrid_search are issued together; for every set
\* of failing dispatchers and every completion order hybrid_search does not
\* raise and returns exactly the fusion of what the succeeding dispatchers
\* brought.
C20_DispatcherIsolation ==
    /\ \A d, e \in Dispatchers :
           (dispatch[d].status = "idle") <=> (dispatch[e].status = "idle")
    /\ step # "hybrid_search_raised"
    /\ (step = "expand" /\ dispatch["semantic"].status # "idle") =>
           search_results =
               merge_and_rank(Succeeded("direct") \o Succeeded("semantic")
                              \o Succeeded("keyword"))

\* the direct lookup and the semantic search raised, the keyword search
\* found article 1, and hybrid_search returned it
C20_Witness ==
    /\ step = "expand"
    /\ dispatch["direct"].status = "failed"
    /\ dispatch["semantic"].status = "failed"
    /\ dispatch["keyword"].status = "ok"
    /\ ArticleNumbers(search_results) = <<1>>

(***************************************************************************)
(* C21: search_by_semantic makes at most two underlying searches.  The     *)
(* first carries the domain as given; a second one, with no domain, is     *)
(* made exactly when the first returned, a domain other than GENERAL was   *)
(* given and the first returned fewer than 2 results; the list returned    *)
(* is then the one the second search returned.                             *)
(***************************************************************************)
C21_DomainFallback ==
    fn = "search_by_semantic" =>
        LET made == ret.store_calls
            first == made[1].outcome
            retried == Len(made) = 2
            due == /\ made # <<>>
                   /\ first.status = "ok"
                   /\ args.domain \notin {None, "", "GENERAL"}
                   /\ Len(first.value) < 2
        IN  /\ Len(made) <= 2
            /\ made # <<>> => made[1].domain = args.domain
            /\ retried => made[2].domain = None /\ due
            /\ (due /\ ~retried) => ~ret.done
            /\ (ret.done /\ ~retried /\ first.status = "ok") => ret.results = first.value
            /\ (retried /\ made[2].outcome.status = "ok") =>
                   ret.done /\ ret.results = made[2].outcome.value

\* a VAT search that found one article was retried and returned the two
\* articles of the unfiltered search
C21_Witness ==
    /\ Applied("search_by_semantic")
    /\ args.domain = "VAT"
    /\ Len(ret.store_calls) = 2
    /\ Len(ret.store_calls[1].outcome.value) = 1
    /\ ret.store_calls[2].domain = None
    /\ Len(ret.results) = 2
    /\ ret.results = ret.store_calls[2].outcome.value

(***************************************************************************)
(* C22: two concurrent answer_question calls share no mutable state: no    *)
(* call reads a module-level object that the other call assigned, and the  *)
(* logic rules a call works with are the ones it gets when it runs alone,  *)
(* starting from the empty cache.                                          *)
(***************************************************************************)
C22_NoSharedMutableState ==
    \A r \in DOMAIN requests :
        /\ requests[r].foreign_reads = {}
        /\ requests[r].logic_rules = requests[r].alone_rules

\* the partition of the entry at position p, and its 1-indexed rank in that
\* partition sorted by descending native score, equal scores in input order
PartitionOf(results, p) ==
    IF results[p].search_type = None THEN "semantic" ELSE results[p].search_type

PartitionRank(results, p) ==
    1 + Cardinality({q \in 1..Len(results) :
                        /\ PartitionOf(results, q) = PartitionOf(results, p)
                        /\ \/ results[q].score > results[p].score
                           \/ results[q].score = results[p].score /\ q < p})

\* the partitions in the order of their first appearance: 1, 2, ...
PartitionIndex(results, p) ==
    LET first == CHOOSE q \in 1..Len(results) :
                     /\ PartitionOf(results, q) = PartitionOf(results, p)
                     /\ \A k \in 1..(q - 1) :
                            PartitionOf(results, k) # PartitionOf(results, p)
    IN  Cardinality({PartitionOf(results, k) : k \in 1..first})

Occurrences(results, a) == {p \in 1..Len(results) : results[p].article_number = a}

RECURSIVE ReciprocalRanks(_, _)
ReciprocalRanks(results, positions) ==
    IF positions = {} THEN 0
    ELSE LET p == CHOOSE x \in positions : TRUE
         IN  RRFScale \div (60 + PartitionRank(results, p))
                 + ReciprocalRanks(results, positions \ {p})

\* when the loops of the fusion first meet article a: partition, then rank
FirstEncounter(results, a) ==
    LET at(p) == PartitionIndex(results, p) * (Len(results) + 1) + PartitionRank(results, p)
        p0 == CHOOSE p \in Occurrences(results, a) :
                  \A q \in Occurrences(results, a) : at(p) <= at(q)
    IN  at(p0)

C24_RerankedBeforePacking ==
    [][step' = "pack" =>
          search_results' = rerank_with_exceptions(search_results)]_vars

\* how often entry r occurs in a list
Count(results, r) == Cardinality({i \in 1..Len(results) : results[i] = r})

(***************************************************************************)
(* C25: rerank_with_exceptions keeps every general rule once and in input  *)
(* order; an exception that references k >= 1 general rules of the list    *)
(* occurs once after each of those k rules; an exception that references   *)
(* no general rule of the list occurs once, at the very end; no entry of   *)
(* the input is dropped.                                                   *)
(***************************************************************************)
C25_RerankKeepsEveryEntry ==
    Applied("rerank_with_exceptions") =>
        LET input == args.results
            reranked == ret.results
            General(r) == ~r.is_exception
            Names(e, g) == g.article_number \in Range(e.related_articles)
            \* the general rules of the input, by position, that e references
            named(e) == {i \in 1..Len(input) : General(input[i]) /\ Names(e, input[i])}
            orphans == SelectSeq(input, LAMBDA r : r.is_exception /\ named(r) = {})
            \* the entries between general rule p and the next general rule
            next(p) == IF \E q \in (p + 1)..Len(reranked) : General(reranked[q])
                       THEN CHOOSE q \in (p + 1)..Len(reranked) :
                                /\ General(reranked[q])
                                /\ \A m \in (p + 1)..(q - 1) : ~General(reranked[m])
                       ELSE Len(reranked) - Len(orphans) + 1
            block(p) == SubSeq(reranked, p + 1, next(p) - 1)
        IN  /\ SelectSeq(reranked, General) = SelectSeq(input, General)
            /\ \A i \in 1..Len(input) :
                   LET e == input[i]
                   IN  e.is_exception =>
                           /\ Count(reranked, e)
                                  = Count(input, e) * Max(1, Cardinality(named(e)))
                           /\ \A p \in 1..Len(reranked) :
                                  (General(reranked[p]) /\ Names(e, reranked[p])) =>
                                      Count(block(p), e) = Count(input, e)
            /\ Len(orphans) <= Len(reranked)
            /\ SubSeq(reranked, Len(reranked) - Len(orphans) + 1, Len(reranked)) = orphans
            /\ Range(input) \subseteq Range(reranked)

\* exception 3 references the general rules 1 and 4, both in the list, and
\* is placed after each of them
C25_Witness ==
    /\ Applied("rerank_with_exceptions")
    /\ ArticleNumbers(args.results) = <<3, 1, 4>>
    /\ ArticleNumbers(ret.results) = <<1, 3, 4, 3>>

\* the characters of the first n bodies of a list
BodyChars(results, n) == SumSeq(BodyLengths(SubSeq(results, 1, n)))

\* the position of the first body that does not fit what the bodies before
\* it have left of the budget; Len + 1 when every body fits
FirstOverflow(results, budget) ==
    IF \E i \in 1..Len(results) : BodyChars(results, i) > budget
    THEN CHOOSE i \in 1..Len(results) :
             /\ BodyChars(results, i) > budget
             /\ \A j \in 1..(i - 1) : BodyChars(results, j) <= budget
    ELSE Len(results) + 1

(***************************************************************************)
(* C26: pack_context returns a prefix of its input, in order and with the  *)
(* entries unchanged: with a positive budget, all entries up to the first  *)
(* body that overflows.  When more than 200 characters are left at that    *)
(* entry, a copy of it with the body cut to what is left, marker included, *)
(* is the last element; with 200 or fewer left it is not included; nothing *)
(* after the first overflowing entry is included and the input is left as  *)
(* it was.                                                                 *)
(***************************************************************************)
C26_PackGreedyPrefix ==
    Applied("pack_context") =>
        LET input == args.results
            packed == ret.results
            k == FirstOverflow(input, args.budget)
            left == args.budget - BodyChars(input, k - 1)
            whole == IF k <= Len(input) /\ left > 200 THEN Len(packed) - 1 ELSE Len(packed)
        IN  /\ Len(packed) <= Min(k, Len(input))
            /\ whole >= 0
            /\ SubSeq(packed, 1, whole) = SubSeq(input, 1, whole)
            /\ args.budget > 0 => whole = k - 1
            /\ (args.budget > 0 /\ k <= Len(input) /\ left > 200) =>
                   /\ Len(packed) = k
                   /\ packed[k] = [input[k] EXCEPT !.body = left]
                   /\ packed[k].body < input[k].body
                   /\ packed[k].body > MARKER_LEN
            /\ (args.budget > 0 /\ k <= Len(input) /\ left <= 200) => Len(packed) = k - 1

\* after article 1 the body of article 3 overflows with 270 characters
\* left and is cut; article 2, which follows, is not packed
C26_Witness ==
    /\ Applied("pack_context")
    /\ args.budget = 420
    /\ ArticleNumbers(args.results) = <<1, 3, 2>>
    /\ ArticleNumbers(ret.results) = <<1, 3>>
    /\ ret.results[1] = args.results[1]
    /\ ret.results[2].body = 270
    /\ args.results[2].body = 300

(***************************************************************************)
(* C27: when the input of merge_and_rank holds a primary entry and a       *)
(* cross_ref entry with the same article_number, the output holds exactly  *)
(* one entry that is not a cross_ref and exactly one cross_ref entry for   *)
(* that article, the cross_ref one after every primary result.             *)
(***************************************************************************)
C27_PrimaryAndCrossRefBothKept ==
    Applied("merge_and_rank") =>
        LET input == args.results
            fused == ret.results
            CrossRef(r) == r.search_type = "cross_ref"
            of(results, a, cross) ==
                {i \in 1..Len(results) :
                    results[i].article_number = a /\ CrossRef(results[i]) = cross}
        IN  \A a \in Range(ArticleNumbers(input)) \ {NoArticle} :
                (of(input, a, FALSE) # {} /\ of(input, a, TRUE) # {}) =>
                    /\ Cardinality(of(fused, a, FALSE)) = 1
                    /\ Cardinality(of(fused, a, TRUE)) = 1
                    /\ \A i \in of(fused, a, TRUE), j \in 1..Len(fused) :
                           ~CrossRef(fused[j]) => j < i

(***************************************************************************)
(* C28: when the query names an article and the exact lookup finds it,     *)
(* that article is the first element of the list hybrid_search returns,    *)
(* with search_type direct and score 1.0, whatever the semantic and the    *)
(* keyword search bring along.                                             *)
(***************************************************************************)
C28_DirectHitFirst ==
    (step = "expand" /\ Succeeded("direct") # <<>>) =>
        /\ search_results # <<>>
        /\ search_results[1].article_number = article_num
        /\ search_results[1].search_type = "direct"
        /\ search_results[1].score = 1000

\* critique_answer has been called for the generated answer
CritiqueEntered == verdicts # <<>> \/ pc = "awaiting_critic"

(***************************************************************************)
(* C29: with the critic enabled and citation refs at hand, critique_answer *)
(* is called, and it skips the reviewer and approves on its own exactly    *)
(* when the confidence is strictly above the threshold; at the threshold   *)
(* the reviewer is called.  With the critic disabled or without citation   *)
(* refs the reviewer is never called.                                      *)
(***************************************************************************)
C29_CriticConfidenceGate ==
    /\ (~cfg.critic_enabled \/ source_refs = <<>>) =>
           reviewer_calls = 0 /\ ~CritiqueEntered
    /\ (cfg.critic_enabled /\ source_refs # <<>> /\ pc = "followup") => CritiqueEntered
    /\ CritiqueEntered =>
           /\ reviewer_calls = 0 <=> confidence > 700
           /\ confidence > 700 =>
                  \A i \in 1..Len(verdicts) :
                      verdicts[i] = CriticResult(TRUE, None) /\ replies[i] = "skipped"
           /\ confidence = 700 => reviewer_calls >= 1 /\ replies # <<"skipped">>

\* at a confidence of exactly the threshold the reviewer was called, and
\* its rejection marked the answer
C29_Witness ==
    /\ pc = "done"
    /\ cfg.critic_enabled /\ ~cfg.critic_regeneration_enabled
    /\ confidence = 700
    /\ reviewer_calls = 1
    /\ replies = <<"object">>
    /\ ~verdicts[1].approved
    /\ response.status = "returned"

\* the retrieval stage has packed its results
Packed == step \in {"cite", "prompt"}

\* how many entries of a list carry article number a
Entries(results, a) ==
    Cardinality({i \in 1..Len(results) : results[i].article_number = a})

\* the general rules of a list that the related_articles of entry e name
GeneralsNamed(results, e) ==
    {i \in 1..Len(results) : ~results[i].is_exception /\ AttachesTo(e, results[i])}

(***************************************************************************)
(* C30 as stated: after fusion, graph expansion, precedence reranking and  *)
(* packing no article_number occurs twice in the packed results, and no    *)
(* article is given two citation ids.                                      *)
(***************************************************************************)
C30_NoArticleTwice ==
    Packed =>
        /\ Distinct(search_results)
        /\ \A i, j \in 1..Len(cited.source_refs) :
               cited.source_refs[i].article_number = cited.source_refs[j].article_number
                   => i = j

(***************************************************************************)
(* C30: in the packed results every general rule occurs once, and so does  *)
(* every article when graph expansion is off.  An exception article occurs *)
(* more than once only after reranking, and then at most once per packed   *)
(* general rule that its related_articles name.                            *)
(***************************************************************************)
C30_OnlyAttachedExceptionsRepeat ==
    Packed =>
        \A i \in 1..Len(search_results) :
            LET e == search_results[i]
            IN  \/ Entries(search_results, e.article_number) = 1
                \/ /\ e.is_exception
                   /\ search_settings.graph_expansion_enabled
                   /\ Entries(search_results, e.article_number)
                          <= Cardinality(GeneralsNamed(search_results, e))

\* exception 3 names the general rules 1 and 4, both retrieved; it is
\* packed after each of them and cited under two ids
C30_Witness ==
    /\ step = "prompt"
    /\ search_settings.graph_expansion_enabled
    /\ search_settings.citation_enabled
    /\ Entries(search_results, 3) = 2
    /\ Entries(search_results, 1) = 1
    /\ Entries(search_results, 4) = 1
    /\ \E i, j \in 1..Len(cited.source_refs) :
           /\ i # j
           /\ cited.source_refs[i].article_number = 3
           /\ cited.source_refs[j].article_number = 3

====
